---- MODULE Spec2Model ----
(***************************************************************************)
(* Order service: a validation gate, a durable orders table and an        *)
(* in-process cache (RwLock<HashMap<String, Order>>), driven by           *)
(* concurrently running create_order / get_order handlers.                *)
(***************************************************************************)
EXTENDS Integers, Sequences, FiniteSets, TLC

(***************************************************************************)
(* Bounds of the model.                                                    *)
(***************************************************************************)
\* number of request handlers that can be in flight at the same time
NumHandlers == 2
\* total number of requests the service accepts in one behaviour
MaxRequests == 2
\* number of process restarts (cache reset) in one behaviour
MaxRestarts == 1
\* number of fields changed at once in the orders given to validate_order
MaxChanges == 2

Handlers == 1..NumHandlers

(***************************************************************************)
(* HTTP status codes used by the handlers.                                 *)
(***************************************************************************)
OK == 200
CREATED == 201
BAD_REQUEST == 400
NOT_FOUND == 404
CONFLICT == 409
INTERNAL_SERVER_ERROR == 500

(***************************************************************************)
(* Data model: Order, Delivery, Payment, Item.                             *)
(***************************************************************************)
Delivery(name, phone, zip, city, address, region, email) ==
    [name |-> name, phone |-> phone, zip |-> zip, city |-> city,
     address |-> address, region |-> region, email |-> email]

Payment(transaction, currency, provider, amount) ==
    [transaction |-> transaction, request_id |-> "", currency |-> currency,
     provider |-> provider, amount |-> amount, payment_dt |-> 1637907727,
     bank |-> "alpha", delivery_cost |-> 1500, goods_total |-> 317,
     custom_fee |-> 0]

Item(chrt_id, price, rid, name, brand) ==
    [chrt_id |-> chrt_id, track_number |-> "T1", price |-> price, rid |-> rid,
     name |-> name, sale |-> 30, size |-> "0", total_price |-> 317,
     nm_id |-> 2389212, brand |-> brand, status |-> 202]

Order(order_uid, track_number, entry, delivery, payment, items, locale) ==
    [order_uid |-> order_uid, track_number |-> track_number, entry |-> entry,
     delivery |-> delivery, payment |-> payment, items |-> items,
     locale |-> locale, internal_signature |-> "", customer_id |-> "test",
     delivery_service |-> "meest", shardkey |-> "9", sm_id |-> 99,
     date_created |-> "2021-11-26T06:22:19Z", oof_shard |-> "1"]

(***************************************************************************)
(* validate_order: Ok is <<>>, Err(e) is <<e>>.                            *)
(***************************************************************************)
is_empty(s) == s = ""

\* validate_items with `return Ok(())` inside the loop: only the first item
\* is looked at
validate_items_first_only(items, i) ==
    IF i > Len(items) THEN <<>>
    ELSE IF \/ items[i].chrt_id <= 0
            \/ items[i].price <= 0
            \/ is_empty(items[i].rid)
            \/ is_empty(items[i].name)
            \/ is_empty(items[i].brand)
         THEN <<"All item fields are required and numeric fields must be positive">>
         ELSE <<>>

RECURSIVE validate_items(_, _)
validate_items(items, i) ==
    IF i > Len(items) THEN <<>>
    ELSE IF \/ items[i].chrt_id <= 0
            \/ items[i].price <= 0
            \/ is_empty(items[i].rid)
            \/ is_empty(items[i].name)
            \/ is_empty(items[i].brand)
         THEN <<"All item fields are required and numeric fields must be positive">>
         ELSE validate_items(items, i + 1)

\* validate_order with the payment block placed before the delivery block
validate_order_payment_first(order) ==
    IF is_empty(order.order_uid) THEN <<"order_uid is required">>
    ELSE IF is_empty(order.track_number) THEN <<"track_number is required">>
    ELSE IF is_empty(order.entry) THEN <<"entry is required">>
    ELSE IF \/ is_empty(order.payment.transaction)
            \/ is_empty(order.payment.currency)
            \/ is_empty(order.payment.provider)
            \/ order.payment.amount <= 0
         THEN <<"All payment fields are required and amount must be positive">>
    ELSE IF \/ is_empty(order.delivery.name)
            \/ is_empty(order.delivery.phone)
            \/ is_empty(order.delivery.zip)
            \/ is_empty(order.delivery.city)
            \/ is_empty(order.delivery.address)
            \/ is_empty(order.delivery.region)
            \/ is_empty(order.delivery.email)
         THEN <<"All delivery fields are required">>
    ELSE IF Len(order.items) = 0 THEN <<"At least one item is required">>
    ELSE validate_items(order.items, 1)

\* validate_order with the amount check written `< 0`
validate_order_amount_zero(order) ==
    IF is_empty(order.order_uid) THEN <<"order_uid is required">>
    ELSE IF is_empty(order.track_number) THEN <<"track_number is required">>
    ELSE IF is_empty(order.entry) THEN <<"entry is required">>
    ELSE IF \/ is_empty(order.delivery.name)
            \/ is_empty(order.delivery.phone)
            \/ is_empty(order.delivery.zip)
            \/ is_empty(order.delivery.city)
            \/ is_empty(order.delivery.address)
            \/ is_empty(order.delivery.region)
            \/ is_empty(order.delivery.email)
         THEN <<"All delivery fields are required">>
    ELSE IF \/ is_empty(order.payment.transaction)
            \/ is_empty(order.payment.currency)
            \/ is_empty(order.payment.provider)
            \/ order.payment.amount < 0
         THEN <<"All payment fields are required and amount must be positive">>
    ELSE IF Len(order.items) = 0 THEN <<"At least one item is required">>
    ELSE validate_items(order.items, 1)

validate_order(order) ==
    IF is_empty(order.order_uid) THEN <<"order_uid is required">>
    ELSE IF is_empty(order.track_number) THEN <<"track_number is required">>
    ELSE IF is_empty(order.entry) THEN <<"entry is required">>
    ELSE IF \/ is_empty(order.delivery.name)
            \/ is_empty(order.delivery.phone)
            \/ is_empty(order.delivery.zip)
            \/ is_empty(order.delivery.city)
            \/ is_empty(order.delivery.address)
            \/ is_empty(order.delivery.region)
            \/ is_empty(order.delivery.email)
         THEN <<"All delivery fields are required">>
    ELSE IF \/ is_empty(order.payment.transaction)
            \/ is_empty(order.payment.currency)
            \/ is_empty(order.payment.provider)
            \/ order.payment.amount <= 0
         THEN <<"All payment fields are required and amount must be positive">>
    ELSE IF Len(order.items) = 0 THEN <<"At least one item is required">>
    ELSE validate_items(order.items, 1)

(***************************************************************************)
(* serde_json: a JSON text is modelled by its tree of tagged values.        *)
(***************************************************************************)
JStr(s) == [t |-> "str", v |-> <<s>>]
JNum(n) == [t |-> "num", v |-> <<n>>]
JArr(elems) == [t |-> "arr", v |-> elems]
JObj(members) == [t |-> "obj", v |-> members]

ser_delivery(d) ==
    JObj(<< <<"name", JStr(d.name)>>, <<"phone", JStr(d.phone)>>,
            <<"zip", JStr(d.zip)>>, <<"city", JStr(d.city)>>,
            <<"address", JStr(d.address)>>, <<"region", JStr(d.region)>>,
            <<"email", JStr(d.email)>> >>)

ser_payment(p) ==
    JObj(<< <<"transaction", JStr(p.transaction)>>,
            <<"request_id", JStr(p.request_id)>>,
            <<"currency", JStr(p.currency)>>,
            <<"provider", JStr(p.provider)>>,
            <<"amount", JNum(p.amount)>>,
            <<"payment_dt", JNum(p.payment_dt)>>,
            <<"bank", JStr(p.bank)>>,
            <<"delivery_cost", JNum(p.delivery_cost)>>,
            <<"goods_total", JNum(p.goods_total)>>,
            <<"custom_fee", JNum(p.custom_fee)>> >>)

ser_item(it) ==
    JObj(<< <<"chrt_id", JNum(it.chrt_id)>>,
            <<"track_number", JStr(it.track_number)>>,
            <<"price", JNum(it.price)>>, <<"rid", JStr(it.rid)>>,
            <<"name", JStr(it.name)>>, <<"sale", JNum(it.sale)>>,
            <<"size", JStr(it.size)>>,
            <<"total_price", JNum(it.total_price)>>,
            <<"nm_id", JNum(it.nm_id)>>, <<"brand", JStr(it.brand)>>,
            <<"status", JNum(it.status)>> >>)

\* to_string with Order.locale marked #[serde(skip_serializing)]
to_string_skipping_locale(order) ==
    JObj(<< <<"order_uid", JStr(order.order_uid)>>,
            <<"track_number", JStr(order.track_number)>>,
            <<"entry", JStr(order.entry)>>,
            <<"delivery", ser_delivery(order.delivery)>>,
            <<"payment", ser_payment(order.payment)>>,
            <<"items", JArr([i \in 1..Len(order.items) |-> ser_item(order.items[i])])>>,
            <<"internal_signature", JStr(order.internal_signature)>>,
            <<"customer_id", JStr(order.customer_id)>>,
            <<"delivery_service", JStr(order.delivery_service)>>,
            <<"shardkey", JStr(order.shardkey)>>,
            <<"sm_id", JNum(order.sm_id)>>,
            <<"date_created", JStr(order.date_created)>>,
            <<"oof_shard", JStr(order.oof_shard)>> >>)

\* serde_json::to_string(&order): the struct's fields in declaration order
to_string(order) ==
    JObj(<< <<"order_uid", JStr(order.order_uid)>>,
            <<"track_number", JStr(order.track_number)>>,
            <<"entry", JStr(order.entry)>>,
            <<"delivery", ser_delivery(order.delivery)>>,
            <<"payment", ser_payment(order.payment)>>,
            <<"items", JArr([i \in 1..Len(order.items) |-> ser_item(order.items[i])])>>,
            <<"locale", JStr(order.locale)>>,
            <<"internal_signature", JStr(order.internal_signature)>>,
            <<"customer_id", JStr(order.customer_id)>>,
            <<"delivery_service", JStr(order.delivery_service)>>,
            <<"shardkey", JStr(order.shardkey)>>,
            <<"sm_id", JNum(order.sm_id)>>,
            <<"date_created", JStr(order.date_created)>>,
            <<"oof_shard", JStr(order.oof_shard)>> >>)

\* the values of member `key` of a JSON object, in document order
Members(obj, key) ==
    LET idx == {i \in 1..Len(obj.v) : obj.v[i][1] = key}
    IN  [k \in 1..Cardinality(idx) |->
            obj.v[CHOOSE i \in idx : Cardinality({j \in idx : j < i}) = k - 1][2]]

\* a derived Deserialize needs every field exactly once, with the field's type
HasField(obj, key, tag) ==
    /\ Len(Members(obj, key)) = 1
    /\ Members(obj, key)[1].t = tag

Field(obj, key) == Members(obj, key)[1]
Scalar(obj, key) == Field(obj, key).v[1]

DeliveryStrs == <<"name", "phone", "zip", "city", "address", "region", "email">>
PaymentStrs == <<"transaction", "request_id", "currency", "provider", "bank">>
PaymentNums == <<"amount", "payment_dt", "delivery_cost", "goods_total", "custom_fee">>
ItemStrs == <<"track_number", "rid", "name", "size", "brand">>
ItemNums == <<"chrt_id", "price", "sale", "total_price", "nm_id", "status">>
OrderStrs == <<"order_uid", "track_number", "entry", "locale", "internal_signature",
               "customer_id", "delivery_service", "shardkey", "date_created",
               "oof_shard">>
OrderNums == <<"sm_id">>

IsStruct(j, strs, nums) ==
    /\ j.t = "obj"
    /\ \A i \in 1..Len(strs) : HasField(j, strs[i], "str")
    /\ \A i \in 1..Len(nums) : HasField(j, nums[i], "num")

IsOrderJson(j) ==
    /\ IsStruct(j, OrderStrs, OrderNums)
    /\ HasField(j, "delivery", "obj")
    /\ IsStruct(Field(j, "delivery"), DeliveryStrs, <<>>)
    /\ HasField(j, "payment", "obj")
    /\ IsStruct(Field(j, "payment"), PaymentStrs, PaymentNums)
    /\ HasField(j, "items", "arr")
    /\ \A i \in 1..Len(Field(j, "items").v) :
          IsStruct(Field(j, "items").v[i], ItemStrs, ItemNums)

de_struct(j, strs, nums) ==
    [k \in {strs[i] : i \in 1..Len(strs)} \cup {nums[i] : i \in 1..Len(nums)}
        |-> Scalar(j, k)]

\* serde_json::from_str::<Order>(&order_data): Ok(order) is <<order>>, Err is <<>>
from_str(j) ==
    IF ~IsOrderJson(j) THEN <<>>
    ELSE << [k \in {"delivery", "payment", "items"} |->
                CASE k = "delivery" -> de_struct(Field(j, "delivery"), DeliveryStrs, <<>>)
                  [] k = "payment" -> de_struct(Field(j, "payment"), PaymentStrs, PaymentNums)
                  [] k = "items" ->
                        [i \in 1..Len(Field(j, "items").v) |->
                            de_struct(Field(j, "items").v[i], ItemStrs, ItemNums)]]
            @@ de_struct(j, OrderStrs, OrderNums) >>

(***************************************************************************)
(* Requests the clients send.                                              *)
(***************************************************************************)
GoodDelivery == Delivery("d", "d", "d", "d", "d", "d", "d")
GoodPayment == Payment("tx", "USD", "p", 100)
GoodItem == Item(1, 10, "r", "n", "b")

OrderX1 == Order("X1", "T1", "E", GoodDelivery, GoodPayment, <<GoodItem>>, "en")
\* another valid order under the same order_uid, with different contents
OrderX1b == Order("X1", "T1", "E", GoodDelivery, GoodPayment, <<GoodItem>>, "ru")

ValidOrders == {OrderX1, OrderX1b}

InvalidOrders ==
    { [OrderX1 EXCEPT !.payment.amount = 0],
      [OrderX1 EXCEPT !.items = <<GoodItem, [GoodItem EXCEPT !.price = 0]>>] }

CreateInputs == ValidOrders \cup InvalidOrders

\* "L0" is the key of a row that predates this build, "Z9" is never created
GetInputs == {"X1", "L0", "Z9"}

\* a row written by an older build: a JSON document without the Order fields
LegacyPayload == JObj(<< <<"order_uid", JStr("L0")>> >>)

EmptyMap == [u \in {} |-> <<>>]

\* the orders table when the process starts for the first time
InitialTables == {EmptyMap, "L0" :> LegacyPayload}

(***************************************************************************)
(* State.                                                                  *)
(***************************************************************************)
VARIABLES
    orders,         \* AppState.orders: the HashMap behind the RwLock
    lock,           \* the RwLock: holders and the FIFO queue of waiters
    db,             \* order_schema.orders: order_uid -> order_data
    pc,             \* where each handler task is
    req,            \* the request each handler task serves
    resp,           \* the response each handler task sent
    ORDER_COUNTER,  \* orders_total
    DB_REQUEST,     \* db_requests_total
    ORDER_STATUS,   \* order_status{status=...}
    obs,            \* history of each request: what it saw and did to the store
    acked,          \* history: order_uid -> the order whose create returned 201
    fetched,        \* history: store fetches performed since the process started
    started,        \* requests accepted so far
    restarts,       \* process restarts so far
    candidate,      \* the order handed to validate_order on its own
    verdict         \* what validate_order returned for it

vars == <<orders, lock, db, pc, req, resp, ORDER_COUNTER, DB_REQUEST,
          ORDER_STATUS, obs, acked, fetched, started, restarts, candidate,
          verdict>>

StatusLabels == {"invalid", "duplicate", "db_error", "created", "not_found"}

\* validate_order has not been called / has returned `result`
NoVerdict == [returned |-> FALSE, result |-> <<>>]
Verdict(result) == [returned |-> TRUE, result |-> result]

NoRequest == [kind |-> "none", order |-> <<>>, id |-> ""]
\* status 0: no response has been sent
NoResponse == [status |-> 0, text |-> "", order |-> <<>>]
\* existed: the key had a row when the request arrived; fresh: the key was in
\* neither tier at the duplicate check; io: what the connection did on the
\* request's store call; insert / fetch: how that call ended; acked: the order
\* whose create had returned 201 for the key when the request arrived
NoObs == [existed |-> FALSE, fresh |-> FALSE, io |-> "none", insert |-> "none",
          inserts |-> 0, fetch |-> "none", fetches |-> 0, acked |-> <<>>]

UnlockedRwLock == [readers |-> {}, writer |-> <<>>, waiters |-> <<>>]

Response(status, text, order) == [status |-> status, text |-> text, order |-> order]

(***************************************************************************)
(* tokio::sync::RwLock: any number of readers or one writer; waiters are   *)
(* served in FIFO order, so a queued writer holds back later readers.      *)
(***************************************************************************)
RECURSIVE grant(_)
grant(l) ==
    IF l.waiters = <<>> \/ l.writer # <<>> THEN l
    ELSE LET w == Head(l.waiters) IN
         IF w.mode = "read"
         THEN grant([l EXCEPT !.readers = @ \cup {w.task}, !.waiters = Tail(@)])
         ELSE IF l.readers = {}
              THEN [l EXCEPT !.writer = <<w.task>>, !.waiters = Tail(@)]
              ELSE l

\* orders.read().await
read(l, task) ==
    IF l.writer = <<>> /\ l.waiters = <<>>
    THEN [l EXCEPT !.readers = @ \cup {task}]
    ELSE [l EXCEPT !.waiters = Append(@, [task |-> task, mode |-> "read"])]

\* orders.write().await
write(l, task) ==
    IF l.writer = <<>> /\ l.readers = {} /\ l.waiters = <<>>
    THEN [l EXCEPT !.writer = <<task>>]
    ELSE [l EXCEPT !.waiters = Append(@, [task |-> task, mode |-> "write"])]

\* dropping a guard: the permits go to the waiters at the head of the queue
drop(l, task) ==
    grant([l EXCEPT !.readers = @ \ {task},
                    !.writer = IF @ = <<task>> THEN <<>> ELSE @])

HoldsRead(task) == task \in lock.readers
HoldsWrite(task) == lock.writer = <<task>>

(***************************************************************************)
(* The durable store.  `io` is what the connection does on this call:      *)
(* "up" (the statement runs) or "down" (the call fails).                   *)
(***************************************************************************)
IoOutcomes == {"up", "down"}

\* INSERT INTO order_schema.orders (order_uid, order_data) VALUES ($1, $2)
\* order_uid is the table's primary key
execute_insert(table, order_uid, order_data, io) ==
    IF io = "down" THEN [err |-> "io", table |-> table]
    ELSE IF order_uid \in DOMAIN table
         THEN [err |-> "unique_violation", table |-> table]
         ELSE [err |-> "", table |-> table @@ (order_uid :> order_data)]

\* SELECT order_data FROM order_schema.orders WHERE order_uid = $1
query_opt(table, order_id, io) ==
    IF io = "down" THEN [err |-> "io", row |-> <<>>]
    ELSE [err |-> "",
          row |-> IF order_id \in DOMAIN table THEN <<table[order_id]>> ELSE <<>>]

\* save_order_to_db with the result of execute discarded instead of `?`
save_order_to_db_discarding_error(table, order, io) ==
    LET order_data == to_string(order)
        r == execute_insert(table, order.order_uid, order_data, io)
    IN  [ok |-> TRUE, err |-> r.err, table |-> r.table]

\* save_order_to_db: `?` turns every error of execute into Err
save_order_to_db(table, order, io) ==
    LET order_data == to_string(order)
        r == execute_insert(table, order.order_uid, order_data, io)
    IN  [ok |-> r.err = "", err |-> r.err, table |-> r.table]

\* get_order_from_db with a failed query turned into Ok(None)
get_order_from_db_error_as_none(table, order_id, io) ==
    LET r == query_opt(table, order_id, io) IN
    IF r.err # "" \/ r.row = <<>> THEN [tag |-> "ok_none", order |-> <<>>]
    ELSE IF from_str(r.row[1]) = <<>> THEN [tag |-> "panic", order |-> <<>>]
    ELSE [tag |-> "ok_some", order |-> from_str(r.row[1])]

\* get_order_from_db with query_one, which fails when no row matches
get_order_from_db_query_one(table, order_id, io) ==
    LET r == query_opt(table, order_id, io) IN
    IF r.err # "" \/ r.row = <<>> THEN [tag |-> "err", order |-> <<>>]
    ELSE IF from_str(r.row[1]) = <<>> THEN [tag |-> "panic", order |-> <<>>]
    ELSE [tag |-> "ok_some", order |-> from_str(r.row[1])]

\* get_order_from_db: Err, Ok(None), Ok(Some(order)), or the panic of unwrap()
get_order_from_db(table, order_id, io) ==
    LET r == query_opt(table, order_id, io) IN
    IF r.err # "" THEN [tag |-> "err", order |-> <<>>]
    ELSE IF r.row = <<>> THEN [tag |-> "ok_none", order |-> <<>>]
    ELSE IF from_str(r.row[1]) = <<>> THEN [tag |-> "panic", order |-> <<>>]
    ELSE [tag |-> "ok_some", order |-> from_str(r.row[1])]

(***************************************************************************)
(* main: an empty cache behind an unlocked RwLock, metrics at zero.        *)
(***************************************************************************)
Init ==
    /\ orders = EmptyMap
    /\ lock = UnlockedRwLock
    /\ db \in InitialTables
    /\ pc = [p \in Handlers |-> "idle"]
    /\ req = [p \in Handlers |-> NoRequest]
    /\ resp = [p \in Handlers |-> NoResponse]
    /\ ORDER_COUNTER = 0
    /\ DB_REQUEST = 0
    /\ ORDER_STATUS = [l \in StatusLabels |-> 0]
    /\ obs = [p \in Handlers |-> NoObs]
    /\ acked = EmptyMap
    /\ fetched = 0
    /\ started = 0
    /\ restarts = 0
    /\ candidate = <<>>
    /\ verdict = NoVerdict

\* a task slot is free before its first request and after each response;
\* the runtime gives a new request the first free slot
Free(p) ==
    /\ pc[p] \in {"idle", "done", "aborted"}
    /\ \A q \in Handlers : q < p => pc[q] \notin {"idle", "done", "aborted"}

inc(counter, label) == [counter EXCEPT ![label] = @ + 1]

\* HashMap::contains_key
contains_key(map, key) == key \in DOMAIN map

\* HashMap::insert: inserts the key or overwrites its value
insert(map, key, value) == [k \in DOMAIN map \cup {key} |-> IF k = key THEN value ELSE map[k]]

\* HashMap::get: Some(v) is <<v>>, None is <<>>
get(map, key) == IF key \in DOMAIN map THEN <<map[key]>> ELSE <<>>

(***************************************************************************)
(* create_order                                                            *)
(***************************************************************************)
\* lines 164-172: validate, then ask for the read lock
CreateStart(p, order) ==
    /\ Free(p)
    /\ started < MaxRequests
    /\ started' = started + 1
    /\ req' = [req EXCEPT ![p] = [kind |-> "create", order |-> <<order>>,
                                  id |-> order.order_uid]]
    /\ obs' = [obs EXCEPT ![p] = [NoObs EXCEPT
                                    !.existed = order.order_uid \in DOMAIN db]]
    /\ IF validate_order(order) # <<>>
       THEN /\ ORDER_STATUS' = inc(ORDER_STATUS, "invalid")
            /\ resp' = [resp EXCEPT ![p] =
                          Response(BAD_REQUEST, validate_order(order)[1], <<>>)]
            /\ pc' = [pc EXCEPT ![p] = "done"]
            /\ lock' = lock
       ELSE /\ lock' = read(lock, p)
            /\ pc' = [pc EXCEPT ![p] = "c_check"]
            /\ resp' = [resp EXCEPT ![p] = NoResponse]
            /\ ORDER_STATUS' = ORDER_STATUS
    /\ UNCHANGED <<orders, db, ORDER_COUNTER, DB_REQUEST, acked, fetched, restarts>>
    /\ UNCHANGED <<candidate, verdict>>

\* CreateCheck with the contains_key test left out
CreateCheck_without_check(p) ==
    /\ pc[p] = "c_check"
    /\ HoldsRead(p)
    /\ lock' = drop(lock, p)
    /\ pc' = [pc EXCEPT ![p] = "c_save"]
    /\ obs' = [obs EXCEPT ![p].fresh = req[p].id \notin DOMAIN db]
    /\ UNCHANGED <<ORDER_STATUS, resp>>
    /\ UNCHANGED <<orders, db, req, ORDER_COUNTER, DB_REQUEST, acked, fetched,
                   started, restarts>>
    /\ UNCHANGED <<candidate, verdict>>

\* lines 172-178: the duplicate check under the read guard, then drop(orders)
CreateCheck(p) ==
    /\ pc[p] = "c_check"
    /\ HoldsRead(p)
    /\ lock' = drop(lock, p)
    /\ IF contains_key(orders, req[p].id)
       THEN /\ ORDER_STATUS' = inc(ORDER_STATUS, "duplicate")
            /\ resp' = [resp EXCEPT ![p] =
                          Response(CONFLICT, "Order already exists", <<>>)]
            /\ pc' = [pc EXCEPT ![p] = "done"]
            /\ obs' = obs
       ELSE /\ pc' = [pc EXCEPT ![p] = "c_save"]
            /\ obs' = [obs EXCEPT ![p].fresh = req[p].id \notin DOMAIN db]
            /\ UNCHANGED <<ORDER_STATUS, resp>>
    /\ UNCHANGED <<orders, db, req, ORDER_COUNTER, DB_REQUEST, acked, fetched,
                   started, restarts>>
    /\ UNCHANGED <<candidate, verdict>>

\* CreateSave with the `return` of the error branch missing
CreateSave_without_return(p, io) ==
    /\ pc[p] = "c_save"
    /\ LET r == save_order_to_db(db, req[p].order[1], io) IN
       /\ db' = r.table
       /\ obs' = [obs EXCEPT ![p].io = io,
                             ![p].insert = IF r.err = "" THEN "ok" ELSE r.err,
                             ![p].inserts = @ + 1]
       /\ ORDER_STATUS' = IF r.ok THEN ORDER_STATUS ELSE inc(ORDER_STATUS, "db_error")
       /\ lock' = write(lock, p)
       /\ pc' = [pc EXCEPT ![p] = "c_insert"]
       /\ resp' = resp
    /\ UNCHANGED <<orders, req, ORDER_COUNTER, DB_REQUEST, acked, fetched,
                   started, restarts>>
    /\ UNCHANGED <<candidate, verdict>>

\* CreateSave that calls save_order_to_db again when it fails
CreateSave_retrying(p, io) ==
    /\ pc[p] = "c_save"
    /\ LET r == save_order_to_db(db, req[p].order[1], io) IN
       /\ db' = r.table
       /\ obs' = [obs EXCEPT ![p].io = io,
                             ![p].insert = IF r.err = "" THEN "ok" ELSE r.err,
                             ![p].inserts = @ + 1]
       /\ IF ~r.ok
          THEN /\ pc' = pc
               /\ lock' = lock
          ELSE /\ lock' = write(lock, p)
               /\ pc' = [pc EXCEPT ![p] = "c_insert"]
       /\ UNCHANGED <<ORDER_STATUS, resp>>
    /\ UNCHANGED <<orders, req, ORDER_COUNTER, DB_REQUEST, acked, fetched,
                   started, restarts>>
    /\ UNCHANGED <<candidate, verdict>>

\* lines 181-191: save_order_to_db returns; on Ok ask for the write lock
CreateSave(p, io) ==
    /\ pc[p] = "c_save"
    /\ LET r == save_order_to_db(db, req[p].order[1], io) IN
       /\ db' = r.table
       /\ obs' = [obs EXCEPT ![p].io = io,
                             ![p].insert = IF r.err = "" THEN "ok" ELSE r.err,
                             ![p].inserts = @ + 1]
       /\ IF ~r.ok
          THEN /\ ORDER_STATUS' = inc(ORDER_STATUS, "db_error")
               /\ resp' = [resp EXCEPT ![p] =
                             Response(INTERNAL_SERVER_ERROR, "Database error", <<>>)]
               /\ pc' = [pc EXCEPT ![p] = "done"]
               /\ lock' = lock
          ELSE /\ lock' = write(lock, p)
               /\ pc' = [pc EXCEPT ![p] = "c_insert"]
               /\ UNCHANGED <<ORDER_STATUS, resp>>
    /\ UNCHANGED <<orders, req, ORDER_COUNTER, DB_REQUEST, acked, fetched,
                   started, restarts>>
    /\ UNCHANGED <<candidate, verdict>>

\* CreateInsert with the cache insert left out
CreateInsert_without_cache(p) ==
    /\ pc[p] = "c_insert"
    /\ HoldsWrite(p)
    /\ orders' = orders
    /\ ORDER_COUNTER' = ORDER_COUNTER + 1
    /\ ORDER_STATUS' = inc(ORDER_STATUS, "created")
    /\ resp' = [resp EXCEPT ![p] = Response(CREATED, "created successfully", <<>>)]
    /\ lock' = drop(lock, p)
    /\ pc' = [pc EXCEPT ![p] = "done"]
    /\ acked' = insert(acked, req[p].id, [order |-> req[p].order[1], epoch |-> restarts])
    /\ UNCHANGED <<db, req, DB_REQUEST, obs, fetched, started, restarts>>
    /\ UNCHANGED <<candidate, verdict>>

\* lines 191-198: insert into the cache under the write guard, respond 201
CreateInsert(p) ==
    /\ pc[p] = "c_insert"
    /\ HoldsWrite(p)
    /\ orders' = insert(orders, req[p].id, req[p].order[1])
    /\ ORDER_COUNTER' = ORDER_COUNTER + 1
    /\ ORDER_STATUS' = inc(ORDER_STATUS, "created")
    /\ resp' = [resp EXCEPT ![p] = Response(CREATED, "created successfully", <<>>)]
    /\ lock' = drop(lock, p)
    /\ pc' = [pc EXCEPT ![p] = "done"]
    /\ acked' = insert(acked, req[p].id, [order |-> req[p].order[1], epoch |-> restarts])
    /\ UNCHANGED <<db, req, DB_REQUEST, obs, fetched, started, restarts>>
    /\ UNCHANGED <<candidate, verdict>>

(***************************************************************************)
(* get_order                                                               *)
(***************************************************************************)
\* line 208: ask for the read lock
GetStart(p, order_id) ==
    /\ Free(p)
    /\ started < MaxRequests
    /\ started' = started + 1
    /\ req' = [req EXCEPT ![p] = [kind |-> "get", order |-> <<>>, id |-> order_id]]
    /\ obs' = [obs EXCEPT ![p] = [NoObs EXCEPT
                                    !.existed = order_id \in DOMAIN db,
                                    !.acked = get(acked, order_id)]]
    /\ resp' = [resp EXCEPT ![p] = NoResponse]
    /\ lock' = read(lock, p)
    /\ pc' = [pc EXCEPT ![p] = "g_lookup"]
    /\ UNCHANGED <<orders, db, ORDER_COUNTER, DB_REQUEST, ORDER_STATUS, acked,
                   fetched, restarts>>
    /\ UNCHANGED <<candidate, verdict>>

\* GetLookup that goes to the store without looking at the cache
GetLookup_skipping_cache(p) ==
    /\ pc[p] = "g_lookup"
    /\ HoldsRead(p)
    /\ pc' = [pc EXCEPT ![p] = "g_fetch"]
    /\ UNCHANGED <<resp, lock>>
    /\ UNCHANGED <<orders, db, req, ORDER_COUNTER, DB_REQUEST, ORDER_STATUS, obs,
                   acked, fetched, started, restarts>>
    /\ UNCHANGED <<candidate, verdict>>

\* lines 209-214: the cache lookup; on a miss the store is asked while the
\* guard `orders` is still alive (it lives to the end of the function)
GetLookup(p) ==
    /\ pc[p] = "g_lookup"
    /\ HoldsRead(p)
    /\ IF get(orders, req[p].id) # <<>>
       THEN /\ resp' = [resp EXCEPT ![p] = Response(OK, "", get(orders, req[p].id))]
            /\ lock' = drop(lock, p)
            /\ pc' = [pc EXCEPT ![p] = "done"]
       ELSE /\ pc' = [pc EXCEPT ![p] = "g_fetch"]
            /\ UNCHANGED <<resp, lock>>
    /\ UNCHANGED <<orders, db, req, ORDER_COUNTER, DB_REQUEST, ORDER_STATUS, obs,
                   acked, fetched, started, restarts>>
    /\ UNCHANGED <<candidate, verdict>>

\* GetFetch that puts the order it fetched into the cache
GetFetch_warming_cache(p, io) ==
    /\ pc[p] = "g_fetch"
    /\ LET r == get_order_from_db(db, req[p].id, io) IN
       /\ obs' = [obs EXCEPT ![p].io = io, ![p].fetch = r.tag,
                             ![p].fetches = @ + 1]
       /\ DB_REQUEST' = IF r.tag = "ok_some" THEN DB_REQUEST + 1 ELSE DB_REQUEST
       /\ ORDER_STATUS' =
             CASE r.tag = "ok_none" -> inc(ORDER_STATUS, "not_found")
               [] r.tag = "err" -> inc(ORDER_STATUS, "db_error")
               [] OTHER -> ORDER_STATUS
       /\ resp' = [resp EXCEPT ![p] =
             CASE r.tag = "ok_some" -> Response(OK, "", r.order)
               [] r.tag = "ok_none" -> Response(NOT_FOUND, "Order not found", <<>>)
               [] r.tag = "err" ->
                     Response(INTERNAL_SERVER_ERROR, "Database error", <<>>)
               [] OTHER -> NoResponse]
       /\ pc' = [pc EXCEPT ![p] = IF r.tag = "panic" THEN "aborted" ELSE "done"]
       /\ orders' = IF r.tag = "ok_some" THEN insert(orders, req[p].id, r.order[1])
                    ELSE orders
    /\ fetched' = fetched + 1
    /\ lock' = drop(lock, p)
    /\ UNCHANGED <<db, req, ORDER_COUNTER, acked, started, restarts>>
    /\ UNCHANGED <<candidate, verdict>>

\* lines 214-235: get_order_from_db returns (or panics); the guard is dropped
GetFetch(p, io) ==
    /\ pc[p] = "g_fetch"
    /\ LET r == get_order_from_db(db, req[p].id, io) IN
       /\ obs' = [obs EXCEPT ![p].io = io, ![p].fetch = r.tag,
                             ![p].fetches = @ + 1]
       /\ DB_REQUEST' = IF r.tag = "ok_some" THEN DB_REQUEST + 1 ELSE DB_REQUEST
       /\ ORDER_STATUS' =
             CASE r.tag = "ok_none" -> inc(ORDER_STATUS, "not_found")
               [] r.tag = "err" -> inc(ORDER_STATUS, "db_error")
               [] OTHER -> ORDER_STATUS
       /\ resp' = [resp EXCEPT ![p] =
             CASE r.tag = "ok_some" -> Response(OK, "", r.order)
               [] r.tag = "ok_none" -> Response(NOT_FOUND, "Order not found", <<>>)
               [] r.tag = "err" ->
                     Response(INTERNAL_SERVER_ERROR, "Database error", <<>>)
               [] OTHER -> NoResponse]
       /\ pc' = [pc EXCEPT ![p] = IF r.tag = "panic" THEN "aborted" ELSE "done"]
    /\ fetched' = fetched + 1
    /\ lock' = drop(lock, p)
    /\ UNCHANGED <<orders, db, req, ORDER_COUNTER, acked, started, restarts>>
    /\ UNCHANGED <<candidate, verdict>>

(***************************************************************************)
(* The process stops and main runs again: the tasks, the cache, the lock   *)
(* and the metrics are gone, the table is kept.                            *)
(***************************************************************************)
Restart ==
    /\ restarts < MaxRestarts
    /\ restarts' = restarts + 1
    /\ orders' = EmptyMap
    /\ lock' = UnlockedRwLock
    /\ pc' = [p \in Handlers |-> "idle"]
    /\ req' = [p \in Handlers |-> NoRequest]
    /\ resp' = [p \in Handlers |-> NoResponse]
    /\ obs' = [p \in Handlers |-> NoObs]
    /\ ORDER_COUNTER' = 0
    /\ DB_REQUEST' = 0
    /\ ORDER_STATUS' = [l \in StatusLabels |-> 0]
    /\ fetched' = 0
    /\ UNCHANGED <<db, acked, started>>
    /\ UNCHANGED <<candidate, verdict>>

Next ==
    \/ \E p \in Handlers, order \in CreateInputs : CreateStart(p, order)
    \/ \E p \in Handlers : CreateCheck(p)
    \/ \E p \in Handlers, io \in IoOutcomes : CreateSave(p, io)
    \/ \E p \in Handlers : CreateInsert(p)
    \/ \E p \in Handlers, order_id \in GetInputs : GetStart(p, order_id)
    \/ \E p \in Handlers : GetLookup(p)
    \/ \E p \in Handlers, io \in IoOutcomes : GetFetch(p, io)
    \/ Restart

Spec == Init /\ [][Next]_vars

\* the runtime polls every task that can move, and every store call returns
Fairness ==
    \A p \in Handlers :
        /\ WF_vars(CreateCheck(p))
        /\ WF_vars(\E io \in IoOutcomes : CreateSave(p, io))
        /\ WF_vars(CreateInsert(p))
        /\ WF_vars(GetLookup(p))
        /\ WF_vars(\E io \in IoOutcomes : GetFetch(p, io))

FairSpec == Spec /\ Fairness

(***************************************************************************)
(* validate_order on its own: the candidate orders are the two-item order  *)
(* with up to MaxChanges of its fields changed.                            *)
(***************************************************************************)
ValidateBase == [OrderX1 EXCEPT !.items = <<GoodItem, GoodItem>>]

Change(at, index, field, value) ==
    [at |-> at, index |-> index, field |-> field, value |-> <<value>>]

\* every field validate_order reads, set to a value it must reject, and
\* fields it does not read, set to other values
Changes ==
    << Change("items", 0, "", <<>>),
       Change("items", 0, "", <<GoodItem>>),
       Change("order", 0, "order_uid", ""),
       Change("order", 0, "track_number", ""),
       Change("order", 0, "entry", ""),
       Change("delivery", 0, "name", ""),
       Change("delivery", 0, "phone", ""),
       Change("delivery", 0, "zip", ""),
       Change("delivery", 0, "city", ""),
       Change("delivery", 0, "address", ""),
       Change("delivery", 0, "region", ""),
       Change("delivery", 0, "email", ""),
       Change("payment", 0, "transaction", ""),
       Change("payment", 0, "currency", ""),
       Change("payment", 0, "provider", ""),
       Change("payment", 0, "amount", 0),
       Change("payment", 0, "amount", -1),
       Change("item", 1, "chrt_id", 0),
       Change("item", 1, "price", -1),
       Change("item", 1, "rid", ""),
       Change("item", 1, "name", ""),
       Change("item", 1, "brand", ""),
       Change("item", 2, "chrt_id", -1),
       Change("item", 2, "price", 0),
       Change("item", 2, "rid", ""),
       Change("item", 2, "name", ""),
       Change("item", 2, "brand", ""),
       Change("order", 0, "locale", ""),
       Change("order", 0, "sm_id", -1),
       Change("payment", 0, "request_id", "req"),
       Change("payment", 0, "bank", ""),
       Change("payment", 0, "custom_fee", -1),
       Change("item", 1, "sale", -1),
       Change("item", 1, "size", ""),
       Change("item", 2, "track_number", "") >>

ApplyChange(order, c) ==
    CASE c.at = "items" -> [order EXCEPT !.items = c.value[1]]
      [] c.at = "order" -> [order EXCEPT ![c.field] = c.value[1]]
      [] c.at = "delivery" -> [order EXCEPT !.delivery[c.field] = c.value[1]]
      [] c.at = "payment" -> [order EXCEPT !.payment[c.field] = c.value[1]]
      [] c.at = "item" ->
            IF c.index <= Len(order.items)
            THEN [order EXCEPT !.items[c.index][c.field] = c.value[1]]
            ELSE order

\* the changes numbered in `chosen`, applied in the order of Changes
RECURSIVE ApplyChanges(_, _, _)
ApplyChanges(order, chosen, i) ==
    IF i > Len(Changes) THEN order
    ELSE ApplyChanges(IF i \in chosen THEN ApplyChange(order, Changes[i]) ELSE order,
                      chosen, i + 1)

\* the sets of at most n change numbers
RECURSIVE ChangeSets(_)
ChangeSets(n) ==
    IF n = 0 THEN {{}}
    ELSE ChangeSets(n - 1) \cup
         {cs \cup {i} : cs \in ChangeSets(n - 1), i \in DOMAIN Changes}

ValidateInputs == {ApplyChanges(ValidateBase, cs, 1) : cs \in ChangeSets(MaxChanges)}

ValidateInit ==
    /\ orders = EmptyMap
    /\ lock = UnlockedRwLock
    /\ db = EmptyMap
    /\ pc = [p \in Handlers |-> "idle"]
    /\ req = [p \in Handlers |-> NoRequest]
    /\ resp = [p \in Handlers |-> NoResponse]
    /\ ORDER_COUNTER = 0
    /\ DB_REQUEST = 0
    /\ ORDER_STATUS = [l \in StatusLabels |-> 0]
    /\ obs = [p \in Handlers |-> NoObs]
    /\ acked = EmptyMap
    /\ fetched = 0
    /\ started = 0
    /\ restarts = 0
    /\ candidate \in {<<order>> : order \in ValidateInputs}
    /\ verdict = NoVerdict

\* validate_order(&order): reads the order, returns a Result
Validate ==
    /\ ~verdict.returned
    /\ verdict' = Verdict(validate_order(candidate[1]))
    /\ UNCHANGED <<orders, lock, db, pc, req, resp, ORDER_COUNTER, DB_REQUEST,
                   ORDER_STATUS, obs, acked, fetched, started, restarts, candidate>>

ValidateNext == Validate

ValidateSpec == ValidateInit /\ [][ValidateNext]_vars

(***************************************************************************)
(* Properties.                                                             *)
(***************************************************************************)
Finished(p) == pc[p] \in {"done", "aborted"}
IsCreate(p) == req[p].kind = "create"
IsGet(p) == req[p].kind = "get"
ValidCreate(p) == IsCreate(p) /\ validate_order(req[p].order[1]) = <<>>

\* C1: every order_uid in the cache has a row in the durable store
CacheOnlyAfterDurableWrite ==
    \A u \in DOMAIN orders : u \in DOMAIN db

\* the cache holds an order
C1_Witness == DOMAIN orders # {}

\* C2: a valid create of a key that was in neither tier at its duplicate
\* check and whose insert did not fail returns 201, and a get of the key that
\* arrives afterwards, with no restart in between, returns 200 with that order
CreateThenGetRoundTrip ==
    \A p \in Handlers :
        /\ (pc[p] = "done" /\ ValidCreate(p) /\ obs[p].fresh /\ obs[p].insert = "ok")
              => resp[p].status = CREATED
        /\ (Finished(p) /\ IsGet(p) /\ obs[p].acked # <<>>
                /\ obs[p].acked[1].epoch = restarts)
              => resp[p] = Response(OK, "", <<obs[p].acked[1].order>>)

\* a create returned 201 and a get of its key that arrived afterwards, in the
\* same run of the process, has returned the order
C2_Witness ==
    \E p \in Handlers :
        /\ pc[p] = "done" /\ IsGet(p)
        /\ req[p].id \in DOMAIN acked
        /\ obs[p].acked = <<acked[req[p].id]>>
        /\ obs[p].acked[1].epoch = restarts
        /\ resp[p].status = OK

\* C3: a valid create of a key that already had a row when it arrived returns
\* 409, with a warm and with a cold cache, whenever the store call itself
\* went through
CreateOfExistingIsDuplicate ==
    \A p \in Handlers :
        (pc[p] = "done" /\ ValidCreate(p) /\ obs[p].existed /\ obs[p].io # "down")
            => resp[p].status = CONFLICT

\* C4: of two creates of the same new key that both passed the duplicate
\* check before either inserted, one returns 201 and the other 409
ConcurrentCreateLoserIsDuplicate ==
    \A p, q \in Handlers :
        (/\ p # q
         /\ pc[p] = "done" /\ pc[q] = "done"
         /\ ValidCreate(p) /\ ValidCreate(q) /\ req[p].id = req[q].id
         /\ obs[p].fresh /\ obs[q].fresh
         /\ obs[p].io = "up" /\ obs[q].io = "up")
            => \/ resp[p].status = CREATED /\ resp[q].status = CONFLICT
               \/ resp[q].status = CREATED /\ resp[p].status = CONFLICT

\* the request accepted in this step went to task p
Accepted(p) == started' = started + 1 /\ Free(p)

\* an order that lacks a required field of the data model: a required string
\* is empty, a required positive integer is <= 0, or there is no item
MissingRequired(order) ==
    \/ \E f \in {"order_uid", "track_number", "entry"} : order[f] = ""
    \/ \E f \in DOMAIN order.delivery : order.delivery[f] = ""
    \/ \E f \in {"transaction", "currency", "provider"} : order.payment[f] = ""
    \/ order.payment.amount <= 0
    \/ order.items = <<>>
    \/ \E i \in DOMAIN order.items :
          \/ order.items[i].chrt_id <= 0
          \/ order.items[i].price <= 0
          \/ \E f \in {"rid", "name", "brand"} : order.items[i][f] = ""

\* C5: a create of an order that lacks a required field returns 400 in the
\* step that accepts it, with the table and the cache as they were, and the
\* request never inserts
InvalidCreateChangesNothing ==
    [][\A p \in Handlers :
          /\ (Accepted(p) /\ req'[p].kind = "create"
                /\ MissingRequired(req'[p].order[1]))
               => /\ db' = db
                  /\ orders' = orders
          /\ (req'[p].kind = "create" /\ MissingRequired(req'[p].order[1]))
               => /\ pc'[p] = "done"
                  /\ resp'[p].status = BAD_REQUEST
                  /\ obs'[p].inserts = 0]_vars

\* an order with amount 0 was rejected while the cache held an order
C5_Witness ==
    \E p \in Handlers :
        /\ pc[p] = "done" /\ IsCreate(p)
        /\ req[p].order[1].payment.amount = 0
        /\ resp[p].status = BAD_REQUEST
        /\ DOMAIN orders # {}

\* C6 as stated: a get that arrives after a create of its key returned 201
\* returns that order
AckedCreateIsReturned ==
    \A p \in Handlers :
        (Finished(p) /\ IsGet(p) /\ obs[p].acked # <<>>)
            => resp[p] = Response(OK, "", <<obs[p].acked[1].order>>)

\* C6: a get that arrives after a create of its key returned 201 returns that
\* order, or 500 when the cache no longer holds the key and the store fetch
\* fails; it never returns 404 and always responds
AckedCreateIsReturnedUnlessStoreFails ==
    \A p \in Handlers :
        (Finished(p) /\ IsGet(p) /\ obs[p].acked # <<>>)
            => \/ resp[p] = Response(OK, "", <<obs[p].acked[1].order>>)
               \/ /\ resp[p].status = INTERNAL_SERVER_ERROR
                  /\ obs[p].io = "down"
                  /\ obs[p].acked[1].epoch < restarts

\* after a restart, a get of a key created before it was served from the store
C6_Witness ==
    \E p \in Handlers :
        /\ pc[p] = "done" /\ IsGet(p) /\ obs[p].acked # <<>>
        /\ obs[p].acked[1].epoch < restarts
        /\ obs[p].fetch = "ok_some"
        /\ resp[p] = Response(OK, "", <<obs[p].acked[1].order>>)

\* C7: a handler whose store call is in progress holds no guard of the cache
NoGuardAcrossStoreCall ==
    \A p \in Handlers :
        pc[p] \in {"c_save", "g_fetch"} => ~HoldsRead(p) /\ ~HoldsWrite(p)

\* C8: a get of a key that has no row returns 404 "Order not found" unless
\* the store call failed
NeverCreatedIsNotFound ==
    \A p \in Handlers :
        (Finished(p) /\ IsGet(p) /\ req[p].id \notin DOMAIN db /\ obs[p].io # "down")
            => resp[p] = Response(NOT_FOUND, "Order not found", <<>>)

\* a get of a key without a row returned 404 while the cache held another order
C8_Witness ==
    \E p \in Handlers :
        /\ pc[p] = "done" /\ IsGet(p) /\ req[p].id \notin DOMAIN db
        /\ obs[p].io = "up"
        /\ resp[p].status = NOT_FOUND
        /\ DOMAIN orders # {}

\* C9: a get whose fetched row cannot be deserialized returns 500
UnreadableRowIsStorageFailure ==
    \A p \in Handlers :
        (/\ Finished(p) /\ IsGet(p) /\ obs[p].fetches > 0 /\ obs[p].io = "up"
         /\ req[p].id \in DOMAIN db /\ from_str(db[req[p].id]) = <<>>)
            => resp[p].status = INTERNAL_SERVER_ERROR

\* C10: no step removes or replaces a row of the table, and no step of a
\* request removes or replaces an entry of the cache
OrdersNeverChange ==
    [][/\ \A u \in DOMAIN db : u \in DOMAIN db' /\ db'[u] = db[u]
       /\ restarts' = restarts =>
             \A u \in DOMAIN orders : u \in DOMAIN orders' /\ orders'[u] = orders[u]]_vars

\* a create carrying other contents for a cached key has finished, and the
\* cache still holds the first order
C10_Witness ==
    \E p \in Handlers :
        /\ pc[p] = "done" /\ ValidCreate(p) /\ obs[p].inserts = 1
        /\ req[p].id \in DOMAIN orders
        /\ orders[req[p].id] # req[p].order[1]
        /\ db[req[p].id] = to_string(orders[req[p].id])

\* an order with the fields validate_order has no business reading set to
\* fixed values
RequiredView(order) ==
    Order(order.order_uid, order.track_number, order.entry, order.delivery,
          Payment(order.payment.transaction, order.payment.currency,
                  order.payment.provider, order.payment.amount),
          [i \in DOMAIN order.items |->
              Item(order.items[i].chrt_id, order.items[i].price,
                   order.items[i].rid, order.items[i].name, order.items[i].brand)],
          "en")

\* C11: validate_order returns Ok exactly when no required field is missing,
\* its result is the same whatever the other fields hold, and the call leaves
\* the cache, the table and the counters alone
ValidateOkIffWellFormed ==
    verdict.returned =>
        /\ (verdict.result = <<>>) <=> ~MissingRequired(candidate[1])
        /\ verdict.result = validate_order(RequiredView(candidate[1]))
        /\ orders = EmptyMap /\ db = EmptyMap /\ lock = UnlockedRwLock
        /\ \A l \in StatusLabels : ORDER_STATUS[l] = 0

\* an order whose only flaw is in its second item, and which differs from
\* the base order in a field that is not validated, was rejected
C11_Witness ==
    /\ verdict.returned
    /\ verdict.result # <<>>
    /\ Len(candidate[1].items) = 2
    /\ ~MissingRequired([candidate[1] EXCEPT !.items = <<@[1]>>])
    /\ candidate[1] # RequiredView(candidate[1])

\* the checks of validate_order in their fixed order: <<fails, error>>
ChecksInOrder(order) ==
    << <<order.order_uid = "", "order_uid is required">>,
       <<order.track_number = "", "track_number is required">>,
       <<order.entry = "", "entry is required">>,
       <<\E f \in DOMAIN order.delivery : order.delivery[f] = "",
         "All delivery fields are required">>,
       << \/ \E f \in {"transaction", "currency", "provider"} : order.payment[f] = ""
          \/ order.payment.amount <= 0,
         "All payment fields are required and amount must be positive">>,
       <<order.items = <<>>, "At least one item is required">> >>
    \o [i \in DOMAIN order.items |->
          << \/ order.items[i].chrt_id <= 0
             \/ order.items[i].price <= 0
             \/ \E f \in {"rid", "name", "brand"} : order.items[i][f] = "",
            "All item fields are required and numeric fields must be positive">>]

Failing(order) == {k \in DOMAIN ChecksInOrder(order) : ChecksInOrder(order)[k][1]}

\* C12: validate_order reports one error, the one of the earliest failing
\* check in the fixed order
ValidateReportsFirstFailure ==
    (verdict.returned /\ Failing(candidate[1]) # {}) =>
        LET first == CHOOSE k \in Failing(candidate[1]) :
                        \A j \in Failing(candidate[1]) : k <= j
        IN  verdict.result = <<ChecksInOrder(candidate[1])[first][2]>>

\* an order failing two checks with different errors was given one error
C12_Witness ==
    /\ verdict.returned
    /\ Len(verdict.result) = 1
    /\ \E j, k \in Failing(candidate[1]) :
          ChecksInOrder(candidate[1])[j][2] # ChecksInOrder(candidate[1])[k][2]

\* task p took a step of its request, or accepted one, in this step
Acted(p) == restarts' = restarts /\ (pc'[p] # pc[p] \/ Accepted(p))

\* C13: a request calls the store at most once (a create inserts, a get
\* fetches), and a call the connection fails ends the request with 500 at once
NoInternalRetry ==
    \A p \in Handlers :
        /\ obs[p].inserts + obs[p].fetches <= 1
        /\ IsCreate(p) => obs[p].fetches = 0
        /\ IsGet(p) => obs[p].inserts = 0
        /\ obs[p].io = "down" =>
              /\ pc[p] = "done"
              /\ resp[p] = Response(INTERNAL_SERVER_ERROR, "Database error", <<>>)

\* a create and a get both ended with 500 after one failed store call each
C13_Witness ==
    \E p, q \in Handlers :
        /\ IsCreate(p) /\ obs[p].io = "down" /\ obs[p].inserts = 1
        /\ IsGet(q) /\ obs[q].io = "down" /\ obs[q].fetches = 1

\* C14: db_requests_total equals the number of store fetches performed since
\* the process started, whatever their result
DbRequestCountsEveryFetch == DB_REQUEST = fetched

\* C15: a step of a create whose insert has not succeeded leaves the cache as
\* it is; when the insert fails the request ends in that step without asking
\* for the write lock, with 500 when the connection failed
FailedInsertNeverWritesCache ==
    [][\A p \in Handlers :
          (Acted(p) /\ req'[p].kind = "create" /\ obs'[p].insert # "ok") =>
              /\ orders' = orders
              /\ obs'[p].inserts > obs[p].inserts =>
                    /\ pc'[p] = "done"
                    /\ ~HoldsWrite(p)'
                    /\ \A i \in DOMAIN lock'.waiters : lock'.waiters[i].task # p
                    /\ obs'[p].insert = "io" =>
                          resp'[p] = Response(INTERNAL_SERVER_ERROR,
                                              "Database error", <<>>)]_vars

\* a create lost the insert to the row of a concurrent create with other
\* contents and ended with 500, and the cache holds the winner's order
C15_Witness ==
    \E p \in Handlers :
        /\ pc[p] = "done" /\ ValidCreate(p) /\ obs[p].inserts = 1
        /\ obs[p].insert = "unique_violation"
        /\ resp[p].status = INTERNAL_SERVER_ERROR
        /\ req[p].id \in DOMAIN orders
        /\ orders[req[p].id] # req[p].order[1]

\* C16: a get that finds its key in the cache returns the cached order in
\* that step without a store call, and a store fetch happens only while the
\* key is not in the cache
CacheHitSkipsStore ==
    [][\A p \in Handlers :
          /\ (Acted(p) /\ pc[p] = "g_lookup" /\ req[p].id \in DOMAIN orders) =>
                /\ pc'[p] = "done"
                /\ resp'[p] = Response(OK, "", <<orders[req[p].id]>>)
                /\ obs'[p].fetches = 0
                /\ fetched' = fetched
                /\ db' = db
          /\ fetched' > fetched =>
                \E q \in Handlers :
                    /\ obs'[q].fetches > obs[q].fetches
                    /\ req[q].id \notin DOMAIN orders]_vars

\* a get was answered from the cache and made no store call
C16_Witness ==
    \E p \in Handlers :
        /\ pc[p] = "done" /\ IsGet(p) /\ obs[p].fetches = 0
        /\ req[p].id \in DOMAIN orders
        /\ resp[p] = Response(OK, "", <<orders[req[p].id]>>)

\* C17: a valid create whose key is in the cache at its duplicate check
\* returns 409 in that step, with no insert and the cache and table unchanged
CachedCreateIsRejectedWithoutStore ==
    [][\A p \in Handlers :
          (Acted(p) /\ pc[p] = "c_check" /\ req[p].id \in DOMAIN orders) =>
              /\ pc'[p] = "done"
              /\ resp'[p] = Response(CONFLICT, "Order already exists", <<>>)
              /\ obs'[p].inserts = 0
              /\ orders' = orders
              /\ db' = db]_vars

\* a valid create was rejected with 409 without an insert
C17_Witness ==
    \E p \in Handlers :
        /\ pc[p] = "done" /\ ValidCreate(p) /\ obs[p].inserts = 0
        /\ req[p].id \in DOMAIN orders
        /\ resp[p].status = CONFLICT

\* C18: no step of a get changes the cache or the table
GetIsReadOnly ==
    [][\A p \in Handlers :
          (Acted(p) /\ req'[p].kind = "get") => orders' = orders /\ db' = db]_vars

\* a get was served from the store and the cache is still without its key
C18_Witness ==
    \E p \in Handlers :
        /\ pc[p] = "done" /\ IsGet(p) /\ obs[p].fetch = "ok_some"
        /\ resp[p].status = OK
        /\ req[p].id \notin DOMAIN orders

\* C19: every cached order equals the order held by the table row of its key
CacheAgreesWithStore ==
    \A u \in DOMAIN orders :
        /\ u \in DOMAIN db
        /\ from_str(db[u]) = <<orders[u]>>

\* two creates carried different orders under one key, both passed the
\* duplicate check, and the cache holds the order of the one whose insert won
C19_Witness ==
    \E p, q \in Handlers :
        /\ pc[p] = "done" /\ pc[q] = "done" /\ ValidCreate(p) /\ ValidCreate(q)
        /\ req[p].id = req[q].id /\ req[p].order # req[q].order
        /\ obs[p].fresh /\ obs[q].fresh
        /\ obs[p].insert = "ok" /\ obs[q].insert = "unique_violation"
        /\ orders[req[p].id] = req[p].order[1]

\* a request is in progress in task p
Busy(p) == pc[p] \in {"c_check", "c_save", "c_insert", "g_lookup", "g_fetch"}

\* C20: while the process keeps running, every request in progress
\* eventually returns a response
EveryRequestResponds ==
    \A p \in Handlers : \A r \in 0..MaxRestarts :
        (Busy(p) /\ restarts = r) ~>
            ((pc[p] = "done" /\ resp[p].status # 0) \/ restarts > r)

\* the part of C20 about the lock: every request in progress eventually
\* leaves its handler, so no task waits for a guard for ever
EveryRequestEnds ==
    \A p \in Handlers : \A r \in 0..MaxRestarts :
        (Busy(p) /\ restarts = r) ~> (Finished(p) \/ restarts > r)

\* a create is queued for the write guard behind a get that holds the read
\* guard while its store fetch is in progress
WriterWaitsBehindFetch ==
    \E p, q \in Handlers :
        /\ pc[p] = "c_insert" /\ ~HoldsWrite(p)
        /\ pc[q] = "g_fetch" /\ HoldsRead(q)

====
